---------------------------- MODULE Spec2Model ----------------------------
(***************************************************************************)
(* A model of the contact-book assistant of src/dz1.py: the field          *)
(* validators (Phone, Birthday), Record, AddressBook with its birthday      *)
(* window, and the command loop of ContactApp.                             *)
(*                                                                         *)
(* Strings are atoms; Chars(w) gives the characters of the string w, and   *)
(* len, isdigit, lower, strip and strptime are computed on the characters. *)
(* An input line is the sequence of its fields separated by single spaces. *)
(* Python's None is the atom None; a raised exception is the "exc" field   *)
(* of an operation's result ("none" when it returns normally).             *)
(***************************************************************************)
EXTENDS Integers, Sequences, FiniteSets, TLC

VARIABLES
    book,      \* AddressBook.data: the Records, in the dict's iteration order
    prev,      \* book as it was before the last command or call
    state,     \* the command loop: "Running", "Terminated" (run returned
               \* after exit/close) or "Crashed" (an exception left run)
    exc,       \* the exception that left run(), "none" while there is none
    events,    \* what the last command did to the view and the pickle file
    disk,      \* addressbook.pkl: whether it exists, and the book pickled in it
    lastcmd,   \* the last input line and the (command, args) it parsed into
    ret        \* the last direct call of a Record/AddressBook method

vars == <<book, prev, state, exc, events, disk, lastcmd, ret>>

--------------------------------------------------------------------------
(* Bounds of the model *)

\* the number of phones the model lets the book hold, over all its records
MaxPhones == 3

--------------------------------------------------------------------------
(* Strings *)

None == "None"

Chars(w) ==
  CASE w = "hello" -> <<"h", "e", "l", "l", "o">>
    [] w = "add" -> <<"a", "d", "d">>
    [] w = "change" -> <<"c", "h", "a", "n", "g", "e">>
    [] w = "phone" -> <<"p", "h", "o", "n", "e">>
    [] w = "all" -> <<"a", "l", "l">>
    [] w = "add-birthday" -> <<"a", "d", "d", "-", "b", "i", "r", "t", "h", "d", "a", "y">>
    [] w = "show-birthday" -> <<"s", "h", "o", "w", "-", "b", "i", "r", "t", "h", "d", "a", "y">>
    [] w = "birthdays" -> <<"b", "i", "r", "t", "h", "d", "a", "y", "s">>
    [] w = "exit" -> <<"e", "x", "i", "t">>
    [] w = "close" -> <<"c", "l", "o", "s", "e">>
    [] w = "ADD" -> <<"A", "D", "D">>
    [] w = "Exit" -> <<"E", "x", "i", "t">>
    [] w = "close\t" -> <<"c", "l", "o", "s", "e", "\t">>
    [] w = "frobnicate" -> <<"f", "r", "o", "b", "n", "i", "c", "a", "t", "e">>
    [] w = "" -> <<>>
    [] w = "Ann" -> <<"A", "n", "n">>
    [] w = "Bob" -> <<"B", "o", "b">>
    [] w = "1234567890" -> <<"1", "2", "3", "4", "5", "6", "7", "8", "9", "0">>
    [] w = "0987654321" -> <<"0", "9", "8", "7", "6", "5", "4", "3", "2", "1">>
    [] w = "12345abcde" -> <<"1", "2", "3", "4", "5", "a", "b", "c", "d", "e">>
    [] w = "123" -> <<"1", "2", "3">>
    [] w = "12345678901" -> <<"1", "2", "3", "4", "5", "6", "7", "8", "9", "0", "1">>
    [] w = "08.06.1990" -> <<"0", "8", ".", "0", "6", ".", "1", "9", "9", "0">>
    [] w = "01.06.1985" -> <<"0", "1", ".", "0", "6", ".", "1", "9", "8", "5">>
    [] w = "29.02.2000" -> <<"2", "9", ".", "0", "2", ".", "2", "0", "0", "0">>
    [] w = "07.06.1991" -> <<"0", "7", ".", "0", "6", ".", "1", "9", "9", "1">>
    [] w = "06.06.1980" -> <<"0", "6", ".", "0", "6", ".", "1", "9", "8", "0">>
    [] w = "31.02.2000" -> <<"3", "1", ".", "0", "2", ".", "2", "0", "0", "0">>
    [] w = "1990-06-08" -> <<"1", "9", "9", "0", "-", "0", "6", "-", "0", "8">>
    [] w = "8.6.90" -> <<"8", ".", "6", ".", "9", "0">>
    [] w = "None" -> <<"N", "o", "n", "e">>

\* the strings the inputs are drawn from
Words ==
    { "hello", "add", "change", "phone", "all", "add-birthday",
      "show-birthday", "birthdays", "exit", "close",
      "ADD", "Exit", "close\t", "frobnicate", "",
      "Ann", "Bob",
      "1234567890", "0987654321", "12345abcde", "123", "12345678901",
      "08.06.1990", "01.06.1985", "29.02.2000", "07.06.1991", "06.06.1980",
      "31.02.2000", "1990-06-08", "8.6.90" }

\* the string whose characters are cs
Str(cs) == CHOOSE w \in Words : Chars(w) = cs

DigitChars == <<"0", "1", "2", "3", "4", "5", "6", "7", "8", "9">>
UpperChars == <<"A", "B", "C", "D", "E", "F", "G", "H", "I", "J", "K", "L", "M",
                "N", "O", "P", "Q", "R", "S", "T", "U", "V", "W", "X", "Y", "Z">>
LowerChars == <<"a", "b", "c", "d", "e", "f", "g", "h", "i", "j", "k", "l", "m",
                "n", "o", "p", "q", "r", "s", "t", "u", "v", "w", "x", "y", "z">>
Whitespace == {" ", "\t", "\n"}

IsDigitChar(c) == \E i \in 1..Len(DigitChars) : DigitChars[i] = c
DigitVal(c) == (CHOOSE i \in 1..Len(DigitChars) : DigitChars[i] = c) - 1

\* len(s)
len(w) == Len(Chars(w))

\* s.isdigit(): non-empty and every character a digit
isdigit(w) == len(w) > 0 /\ \A i \in 1..len(w) : IsDigitChar(Chars(w)[i])

\* s.lower(), on the characters
LowerChar(c) ==
    IF \E i \in 1..Len(UpperChars) : UpperChars[i] = c
    THEN LowerChars[CHOOSE i \in 1..Len(UpperChars) : UpperChars[i] = c]
    ELSE c
lower(cs) == [i \in 1..Len(cs) |-> LowerChar(cs[i])]

\* s.strip(), on the characters
RECURSIVE lstrip(_)
lstrip(cs) ==
    IF cs # <<>> /\ Head(cs) \in Whitespace THEN lstrip(Tail(cs)) ELSE cs
RECURSIVE rstrip(_)
rstrip(cs) ==
    IF cs # <<>> /\ cs[Len(cs)] \in Whitespace
    THEN rstrip(SubSeq(cs, 1, Len(cs) - 1)) ELSE cs
strip(cs) == rstrip(lstrip(cs))

\* the fields of cs between occurrences of the character sep
RECURSIVE SplitOn(_, _)
SplitOn(cs, sep) ==
    IF \E i \in 1..Len(cs) : cs[i] = sep
    THEN LET i == CHOOSE k \in 1..Len(cs) :
                      cs[k] = sep /\ \A j \in 1..(k - 1) : cs[j] # sep
         IN <<SubSeq(cs, 1, i - 1)>> \o SplitOn(SubSeq(cs, i + 1, Len(cs)), sep)
    ELSE <<cs>>

\* the number a sequence of digit characters writes
RECURSIVE IntOf(_)
IntOf(cs) ==
    IF cs = <<>> THEN 0
    ELSE 10 * IntOf(SubSeq(cs, 1, Len(cs) - 1)) + DigitVal(cs[Len(cs)])

AllDigits(cs) == \A i \in 1..Len(cs) : IsDigitChar(cs[i])

--------------------------------------------------------------------------
(* datetime.date *)

IsLeap(y) == (y % 4 = 0) /\ ((y % 100 # 0) \/ (y % 400 = 0))

DaysInMonth(y, m) ==
    CASE m \in {1, 3, 5, 7, 8, 10, 12} -> 31
      [] m \in {4, 6, 9, 11} -> 30
      [] m = 2 -> IF IsLeap(y) THEN 29 ELSE 28

\* date(y, m, d) is a date
ValidDate(y, m, d) ==
    /\ y \in 1..9999
    /\ m \in 1..12
    /\ d >= 1
    /\ d <= DaysInMonth(y, m)

Date(y, m, d) == [year |-> y, month |-> m, day |-> d]

RECURSIVE DaysBeforeMonth(_, _)
DaysBeforeMonth(y, m) ==
    IF m = 1 THEN 0 ELSE DaysBeforeMonth(y, m - 1) + DaysInMonth(y, m - 1)

DaysBeforeYear(y) ==
    365 * (y - 1) + ((y - 1) \div 4) - ((y - 1) \div 100) + ((y - 1) \div 400)

\* date.toordinal()
toordinal(dt) ==
    DaysBeforeYear(dt.year) + DaysBeforeMonth(dt.year, dt.month) + dt.day

\* date.weekday(), Monday = 0
weekday(dt) == (toordinal(dt) + 6) % 7

\* a < b on dates
DateLess(a, b) ==
    \/ a.year < b.year
    \/ a.year = b.year /\ a.month < b.month
    \/ a.year = b.year /\ a.month = b.month /\ a.day < b.day

\* (a - b).days
DaysBetween(a, b) == toordinal(a) - toordinal(b)

NextDay(dt) ==
    IF dt.day < DaysInMonth(dt.year, dt.month)
    THEN Date(dt.year, dt.month, dt.day + 1)
    ELSE IF dt.month < 12 THEN Date(dt.year, dt.month + 1, 1)
    ELSE Date(dt.year + 1, 1, 1)

\* dt + timedelta(days=n), n >= 0
RECURSIVE PlusDays(_, _)
PlusDays(dt, n) == IF n = 0 THEN dt ELSE PlusDays(NextDay(dt), n - 1)

\* dt.replace(year=y): ValueError when the day does not exist in year y
replace_year(dt, y) ==
    IF ValidDate(y, dt.month, dt.day)
    THEN [exc |-> "none", date |-> Date(y, dt.month, dt.day)]
    ELSE [exc |-> "ValueError", date |-> dt]

\* datetime.strptime(s, "%d.%m.%Y"): one or two digits, ".", one or two
\* digits, ".", four digits, naming a calendar date; ValueError otherwise
strptime_format(w) ==
    LET f == SplitOn(Chars(w), ".")
        shape == /\ Len(f) = 3
                 /\ Len(f[1]) \in {1, 2} /\ AllDigits(f[1])
                 /\ Len(f[2]) \in {1, 2} /\ AllDigits(f[2])
                 /\ Len(f[3]) = 4 /\ AllDigits(f[3])
    IN IF shape /\ ValidDate(IntOf(f[3]), IntOf(f[2]), IntOf(f[1]))
       THEN [exc |-> "none", date |-> Date(IntOf(f[3]), IntOf(f[2]), IntOf(f[1]))]
       ELSE [exc |-> "ValueError", date |-> Date(1, 1, 1)]

\* strptime on each of the strings
strptimes == [w \in Words \cup {None} |-> strptime_format(w)]
strptime(w) == strptimes[w]

--------------------------------------------------------------------------
(* Field validators *)

\* Phone.validate_phone
validate_phone(phone) == len(phone) = 10 /\ isdigit(phone)

\* Phone.__init__
Phone(value) ==
    IF ~validate_phone(value)
    THEN [exc |-> "ValueError", msg |-> "Invalid phone number", value |-> value]
    ELSE [exc |-> "none", msg |-> "", value |-> value]

\* Birthday.__init__
Birthday(value) ==
    IF strptime(value).exc # "none"
    THEN [exc |-> "ValueError", msg |-> "Invalid date format", value |-> value]
    ELSE [exc |-> "none", msg |-> "", value |-> value]

--------------------------------------------------------------------------
(* Record: [name, phones, birthday], phones the values of its Phone       *)
(* objects in list order, birthday the Birthday's value or None           *)

NoRecord == [name |-> None, phones |-> <<>>, birthday |-> None]

\* Record.__init__; "if birthday" is false for None and for ""
Record(name, phone, birthday) ==
    LET p == Phone(phone)
        b == IF birthday \notin {None, ""} THEN Birthday(birthday)
             ELSE [exc |-> "none", msg |-> "", value |-> None]
    IN IF p.exc # "none" THEN [exc |-> p.exc, msg |-> p.msg, rec |-> NoRecord]
       ELSE IF b.exc # "none" THEN [exc |-> b.exc, msg |-> b.msg, rec |-> NoRecord]
       ELSE [exc |-> "none", msg |-> "",
             rec |-> [name |-> name, phones |-> <<p.value>>, birthday |-> b.value]]

\* add_phone that leaves a phone the record already holds alone
add_phone_no_duplicates(rec, phone) ==
    IF validate_phone(phone)
    THEN [exc |-> "none", msg |-> "", value |-> phone,
          rec |-> IF \E i \in 1..Len(rec.phones) : rec.phones[i] = phone
                  THEN rec
                  ELSE [rec EXCEPT !.phones = Append(@, phone)]]
    ELSE [exc |-> "ValueError", msg |-> "Invalid phone number", value |-> None,
          rec |-> rec]

\* Record.add_phone
add_phone(rec, phone) ==
    IF validate_phone(phone)
    THEN [exc |-> "none", msg |-> "", value |-> phone,
          rec |-> [rec EXCEPT !.phones = Append(@, Phone(phone).value)]]
    ELSE [exc |-> "ValueError", msg |-> "Invalid phone number", value |-> None,
          rec |-> rec]

\* Record.find_phone: the position of the first Phone whose value is phone,
\* 0 for None
find_phone(rec, phone) ==
    IF \E i \in 1..Len(rec.phones) : rec.phones[i] = phone
    THEN CHOOSE i \in 1..Len(rec.phones) :
             /\ rec.phones[i] = phone
             /\ \A j \in 1..(i - 1) : rec.phones[j] # phone
    ELSE 0

\* Record.remove_phone
remove_phone(rec, phone) ==
    LET del_phone == find_phone(rec, phone)
    IN IF del_phone # 0
       THEN [exc |-> "none", msg |-> "", value |-> phone,
             rec |-> [rec EXCEPT !.phones =
                        SubSeq(@, 1, del_phone - 1) \o SubSeq(@, del_phone + 1, Len(@))]]
       ELSE [exc |-> "none", msg |-> "", value |-> None, rec |-> rec]

\* edit_phone that stores new_phone in the Phone it found, with the length
\* check alone
edit_phone_assigns(rec, old_phone, new_phone) ==
    IF len(new_phone) # 10
    THEN [exc |-> "ValueError", msg |-> "Invalid phone number: must be 10 digits.",
          rec |-> rec]
    ELSE IF \E i \in 1..Len(rec.phones) : rec.phones[i] = old_phone
    THEN [exc |-> "none", msg |-> "",
          rec |-> [rec EXCEPT !.phones[CHOOSE i \in 1..Len(rec.phones) :
                                          /\ rec.phones[i] = old_phone
                                          /\ \A j \in 1..(i - 1) : rec.phones[j] # old_phone]
                                 = new_phone]]
    ELSE [exc |-> "ValueError", msg |-> "Phone number not found", rec |-> rec]

\* edit_phone that looks old_phone up before it checks the length of new_phone
edit_phone_finds_first(rec, old_phone, new_phone) ==
    IF \A i \in 1..Len(rec.phones) : rec.phones[i] # old_phone
    THEN [exc |-> "ValueError", msg |-> "Phone number not found", rec |-> rec]
    ELSE IF len(new_phone) # 10
    THEN [exc |-> "ValueError", msg |-> "Invalid phone number: must be 10 digits.",
          rec |-> rec]
    ELSE [exc |-> "TypeError", msg |-> "'str' object is not callable", rec |-> rec]

\* edit_phone that takes the old Phone out of the list before it builds the
\* new one
edit_phone_removes_first(rec, old_phone, new_phone) ==
    IF len(new_phone) # 10
    THEN [exc |-> "ValueError", msg |-> "Invalid phone number: must be 10 digits.",
          rec |-> rec]
    ELSE IF \E i \in 1..Len(rec.phones) : rec.phones[i] = old_phone
    THEN [exc |-> "TypeError", msg |-> "'str' object is not callable",
          rec |-> [rec EXCEPT !.phones = SelectSeq(@, LAMBDA p : p # old_phone)]]
    ELSE [exc |-> "ValueError", msg |-> "Phone number not found", rec |-> rec]

\* Record.edit_phone: "phone.value = new_phone(Phone)" calls the str
\* new_phone, which raises TypeError before anything is assigned
edit_phone(rec, old_phone, new_phone) ==
    IF len(new_phone) # 10
    THEN [exc |-> "ValueError", msg |-> "Invalid phone number: must be 10 digits.",
          rec |-> rec]
    ELSE LET phone == find_phone(rec, old_phone)
         IN IF phone # 0
            THEN [exc |-> "TypeError", msg |-> "'str' object is not callable",
                  rec |-> rec]
            ELSE [exc |-> "ValueError", msg |-> "Phone number not found",
                  rec |-> rec]

\* Record.edit_birthday
edit_birthday(rec, new_birthday) ==
    LET b == Birthday(new_birthday)
    IN IF b.exc # "none" THEN [exc |-> b.exc, msg |-> b.msg, rec |-> rec]
       ELSE [exc |-> "none", msg |-> "", rec |-> [rec EXCEPT !.birthday = b.value]]

\* "; ".join(xs)
RECURSIVE join(_, _)
join(xs, sep) ==
    IF xs = <<>> THEN <<>>
    ELSE IF Len(xs) = 1 THEN xs[1]
    ELSE xs[1] \o <<sep>> \o join(Tail(xs), sep)

\* Record.__str__, as the pieces of the text
Record_str(rec) ==
    <<"Contact name: ", rec.name, ", phones: ">>
    \o join([i \in 1..Len(rec.phones) |-> <<rec.phones[i]>>], "; ")
    \o <<", birthday: ",
         IF rec.birthday # None THEN rec.birthday ELSE "No birthday set">>

--------------------------------------------------------------------------
(* AddressBook: data is the sequence of its Records in the dict's         *)
(* iteration order, each under the key rec.name                           *)

Keys(data) == {data[i].name : i \in 1..Len(data)}

\* AddressBook.find: the position of the Record under name, 0 for None
find(data, name) ==
    IF name \in Keys(data)
    THEN CHOOSE i \in 1..Len(data) : data[i].name = name
    ELSE 0

\* AddressBook.add_record: a dict assignment keeps an existing key's place
add_record(data, record) ==
    IF find(data, record.name) # 0
    THEN [data EXCEPT ![find(data, record.name)] = record]
    ELSE Append(data, record)

\* AddressBook.delete
delete(data, name) ==
    IF find(data, name) # 0
    THEN SubSeq(data, 1, find(data, name) - 1)
         \o SubSeq(data, find(data, name) + 1, Len(data))
    ELSE data

\* AddressBook.__str__
AddressBook_str(data) ==
    IF data = <<>> THEN <<"No contacts found.">>
    ELSE join([i \in 1..Len(data) |-> Record_str(data[i])], "\n")

\* AddressBook.find_next_weekday
find_next_weekday(start_date, wd) ==
    LET days_ahead == wd - weekday(start_date)
    IN PlusDays(start_date, IF days_ahead <= 0 THEN days_ahead + 7 ELSE days_ahead)

\* adjust_for_weekend that moves Saturday and Sunday only
adjust_for_weekend_from_saturday(birthday) ==
    IF weekday(birthday) >= 5 THEN find_next_weekday(birthday, 0) ELSE birthday

\* AddressBook.adjust_for_weekend
adjust_for_weekend(birthday) ==
    IF weekday(birthday) >= 4 THEN find_next_weekday(birthday, 0) ELSE birthday

\* one pass of the loop of get_upcoming_birthdays over a record with a birthday
upcoming_entry(record, days, today) ==
    LET this == replace_year(strptime(record.birthday).date, today.year)
        next == IF this.exc = "none" /\ DateLess(this.date, today)
                THEN replace_year(this.date, today.year + 1)
                ELSE this
    IN IF next.exc # "none" THEN [exc |-> next.exc, found |-> <<>>]
       ELSE LET adjusted_birthday == adjust_for_weekend(next.date)
                d == DaysBetween(adjusted_birthday, today)
            IN [exc |-> "none",
                found |-> IF 0 <= d /\ d <= days
                          THEN <<[name |-> record.name, birthday |-> adjusted_birthday]>>
                          ELSE <<>>]

\* AddressBook.get_upcoming_birthdays, today = datetime.now().date()
RECURSIVE get_upcoming_birthdays(_, _, _)
get_upcoming_birthdays(data, days, today) ==
    IF data = <<>> THEN [exc |-> "none", value |-> <<>>]
    ELSE LET one == IF Head(data).birthday # None
                    THEN upcoming_entry(Head(data), days, today)
                    ELSE [exc |-> "none", found |-> <<>>]
         IN IF one.exc # "none" THEN [exc |-> one.exc, value |-> <<>>]
            ELSE LET rest == get_upcoming_birthdays(Tail(data), days, today)
                 IN IF rest.exc # "none" THEN rest
                    ELSE [exc |-> "none", value |-> one.found \o rest.value]

--------------------------------------------------------------------------
(* Persistence: addressbook.pkl *)

NoFile == [exists |-> FALSE, data |-> <<>>]

\* save_data: pickle.dump of the book
save_data(data) == [exists |-> TRUE, data |-> data]

\* load_data: pickle.load; input_error turns FileNotFoundError into AddressBook()
load_data(file) == IF file.exists THEN file.data ELSE <<>>

--------------------------------------------------------------------------
(* The view *)

\* ConsoleView.show_message
show_message(text) == [kind |-> "show_message", text |-> text, greet |-> <<>>]

\* ConsoleView.show_contacts: a str, or a list of greeting lines
show_contacts(text, greet) == [kind |-> "show_contacts", text |-> text, greet |-> greet]

\* the event of save_data in the log of a command
Saved == [kind |-> "save", text |-> <<>>, greet |-> <<>>]

--------------------------------------------------------------------------
(* Inputs *)

Names == {"Ann", "Bob"}

\* the keys of ContactApp.commands
Commands ==
    { "hello", "add", "change", "phone", "all", "add-birthday",
      "show-birthday", "birthdays", "exit", "close" }

\* days=7 of get_upcoming_birthdays
DefaultDays == 7

\* the lines typed at the prompt, each as its fields between single spaces
Lines ==
    { <<"hello">>, <<"hello", "Ann">>, <<"all">>, <<"birthdays">>,
      <<"exit">>, <<"close">>, <<"Exit">>, <<"close\t">>,
      <<"">>, <<"frobnicate">>, <<"frobnicate", "Ann", "1234567890">>,
      <<"", "add", "Ann", "1234567890">>,
      <<"add">>, <<"add", "Ann">>, <<"add", "Ann", "1234567890", "Bob">>,
      <<"ADD", "Ann", "1234567890">>, <<"add", "", "Bob", "", "0987654321">>,
      <<"change">>, <<"phone">>, <<"add-birthday", "Ann">>, <<"show-birthday">> }
    \cup { <<"add", n, p>> :
             n \in Names, p \in {"1234567890", "0987654321", "12345abcde", "123"} }
    \cup { <<"change", n, p>> :
             n \in Names, p \in {"0987654321", "12345abcde", "12345678901"} }
    \cup { <<c, n>> : c \in {"phone", "show-birthday"}, n \in Names }
    \cup { <<"add-birthday", n, b>> :
             n \in Names, b \in {"08.06.1990", "29.02.2000", "31.02.2000", "8.6.90"} }

\* the dates datetime.now().date() gives
Todays == { Date(2024, 6, 3), Date(2024, 2, 26) }

RECURSIVE TotalPhones(_)
TotalPhones(data) ==
    IF data = <<>> THEN 0 ELSE Len(Head(data).phones) + TotalPhones(Tail(data))

--------------------------------------------------------------------------
(* ContactApp *)

\* parse_input that splits the whole line with split(): the command is the
\* first non-empty field
parse_input_split_all(line) ==
    LET fields == SelectSeq(line, LAMBDA f : f # "")
    IN IF fields = <<>> THEN [command |-> "", args |-> <<>>]
       ELSE [command |-> Str(lower(strip(Chars(fields[1])))), args |-> Tail(fields)]

\* ContactApp.parse_input: split(' ', 1), then split() of the rest, which
\* drops the empty fields; the command stripped and lower-cased
parse_input(line) ==
    [command |-> Str(lower(strip(Chars(line[1])))),
     args |-> SelectSeq(Tail(line), LAMBDA f : f # "")]

\* parse_input on each of the lines
parsed == [line \in Lines |-> parse_input(line)]

NoCmd == [line |-> <<>>, command |-> None, args |-> <<>>]

Parsed(line) ==
    [line |-> line, command |-> parsed[line].command, args |-> parsed[line].args]

\* the handler returned: the loop of run goes on
Return(line, data, shown) ==
    /\ book' = data
    /\ prev' = book
    /\ state' = "Running"
    /\ exc' = "none"
    /\ events' = shown
    /\ lastcmd' = Parsed(line)
    /\ UNCHANGED <<disk, ret>>

\* the handler raised e: nothing in run catches it
Raise(line, e, shown) ==
    /\ book' = book
    /\ prev' = book
    /\ state' = "Crashed"
    /\ exc' = e
    /\ events' = shown
    /\ lastcmd' = Parsed(line)
    /\ UNCHANGED <<disk, ret>>

\* run, to the first prompt
Init ==
    /\ disk \in { NoFile,
                  save_data(<<[name |-> "Ann", phones |-> <<"1234567890">>,
                               birthday |-> None]>>) }
    /\ book = load_data(disk)
    /\ prev = book
    /\ state = "Running"
    /\ exc = "none"
    /\ events = <<show_message(<<"Welcome to the assistant bot!">>)>>
    /\ lastcmd = NoCmd
    /\ ret = [op |-> "none"]

\* ContactApp.hello
hello(line) ==
    /\ state = "Running"
    /\ parsed[line].command = "hello"
    /\ Return(line, book, <<show_message(<<"How can I help you?">>)>>)

\* ContactApp.add_contact
add_contact(line) ==
    /\ state = "Running"
    /\ parsed[line].command = "add"
    /\ LET args == parsed[line].args
       IN IF Len(args) # 2 THEN Raise(line, "ValueError", <<>>)
          ELSE LET name == args[1]
                   phone == args[2]
                   record == find(book, name)
               IN IF record # 0
                  THEN LET r == add_phone(book[record], phone)
                       IN IF r.exc # "none" THEN Raise(line, r.exc, <<>>)
                          ELSE Return(line, [book EXCEPT ![record] = r.rec],
                                      <<show_message(<<"Phone added.">>)>>)
                  ELSE IF len(phone) = 10
                  THEN LET r == Record(name, phone, None)
                       IN IF r.exc # "none" THEN Raise(line, r.exc, <<>>)
                          ELSE Return(line, add_record(book, r.rec),
                                      <<show_message(<<"Contact added.">>)>>)
                  ELSE Return(line, book, <<show_message(<<"Invalid phone number">>)>>)
    /\ TotalPhones(book') <= MaxPhones

\* ContactApp.change_contact
change_contact(line) ==
    /\ state = "Running"
    /\ parsed[line].command = "change"
    /\ LET args == parsed[line].args
       IN IF Len(args) # 2 THEN Raise(line, "ValueError", <<>>)
          ELSE LET name == args[1]
                   phone == args[2]
                   record == find(book, name)
               IN IF record # 0
                  THEN LET r == edit_phone(book[record], book[record].phones[1], phone)
                       IN IF r.exc # "none" THEN Raise(line, r.exc, <<>>)
                          ELSE Return(line, [book EXCEPT ![record] = r.rec],
                                      <<show_message(<<"Contact updated.">>)>>)
                  ELSE Return(line, book, <<show_message(<<"Contact not found.">>)>>)

\* ContactApp.show_phone
show_phone(line) ==
    /\ state = "Running"
    /\ parsed[line].command = "phone"
    /\ LET args == parsed[line].args
       IN IF Len(args) < 1 THEN Raise(line, "IndexError", <<>>)
          ELSE LET name == args[1]
                   record == find(book, name)
               IN IF record # 0
                  THEN IF Len(book[record].phones) < 1
                       THEN Raise(line, "IndexError", <<>>)
                       ELSE Return(line, book,
                              <<show_message(<<"Phone number for ", name, ": ",
                                               book[record].phones[1]>>)>>)
                  ELSE Return(line, book,
                         <<show_message(<<"Contact ", name, " not found.">>)>>)

\* ContactApp.show_all_contacts
show_all_contacts(line) ==
    /\ state = "Running"
    /\ parsed[line].command = "all"
    /\ Return(line, book, <<show_contacts(AddressBook_str(book), <<>>)>>)

\* ContactApp.add_birthday
add_birthday(line) ==
    /\ state = "Running"
    /\ parsed[line].command = "add-birthday"
    /\ LET args == parsed[line].args
       IN IF Len(args) # 2 THEN Raise(line, "ValueError", <<>>)
          ELSE LET name == args[1]
                   birthday == args[2]
                   record == find(book, name)
               IN IF record # 0
                  THEN LET r == edit_birthday(book[record], birthday)
                       IN IF r.exc # "none" THEN Raise(line, r.exc, <<>>)
                          ELSE Return(line, [book EXCEPT ![record] = r.rec],
                                 <<show_message(<<"Birthday for ", name, " added.">>)>>)
                  ELSE Return(line, book,
                         <<show_message(<<"Contact ", name, " not found.">>)>>)

\* ContactApp.show_birthday
show_birthday(line) ==
    /\ state = "Running"
    /\ parsed[line].command = "show-birthday"
    /\ LET args == parsed[line].args
       IN IF Len(args) < 1 THEN Raise(line, "IndexError", <<>>)
          ELSE LET name == args[1]
                   record == find(book, name)
               IN IF record # 0
                  THEN IF book[record].birthday # None
                       THEN Return(line, book,
                              <<show_message(<<"Birthday for ", name, ": ",
                                               book[record].birthday>>)>>)
                       ELSE Return(line, book,
                              <<show_message(<<"Birthday for ", name, " not added.">>)>>)
                  ELSE Return(line, book,
                         <<show_message(<<"Contact ", name, " not found.">>)>>)

\* ContactApp.show_birthdays
show_birthdays(line, today) ==
    /\ state = "Running"
    /\ parsed[line].command = "birthdays"
    /\ LET upcoming_birthdays == get_upcoming_birthdays(book, DefaultDays, today)
       IN IF upcoming_birthdays.exc # "none"
          THEN Raise(line, upcoming_birthdays.exc, <<>>)
          ELSE IF upcoming_birthdays.value # <<>>
          THEN Return(line, book,
                 <<show_contacts(<<"Greeting for ", " for ">>, upcoming_birthdays.value)>>)
          ELSE Return(line, book, <<show_message(<<"Users not found.">>)>>)

\* ContactApp.exit: save, farewell, and "exit" breaks the loop of run
exit(line) ==
    /\ state = "Running"
    /\ parsed[line].command \in {"exit", "close"}
    /\ disk' = save_data(book)
    /\ events' = <<Saved, show_message(<<"Good bye!">>)>>
    /\ state' = "Terminated"
    /\ prev' = book
    /\ lastcmd' = Parsed(line)
    /\ UNCHANGED <<book, exc, ret>>

\* run: a command that is no key of ContactApp.commands
invalid_command(line) ==
    /\ state = "Running"
    /\ parsed[line].command \notin Commands
    /\ Return(line, book, <<show_message(<<"Invalid command.">>)>>)

\* the loop of ContactApp.run: one input line, parsed and dispatched
Next ==
    \E line \in Lines :
        \/ hello(line)
        \/ add_contact(line)
        \/ change_contact(line)
        \/ show_phone(line)
        \/ show_all_contacts(line)
        \/ add_birthday(line)
        \/ show_birthday(line)
        \/ \E today \in Todays : show_birthdays(line, today)
        \/ exit(line)
        \/ invalid_command(line)

Spec == Init /\ [][Next]_vars

--------------------------------------------------------------------------
(* The methods of Record, called directly on one Record (book[1])        *)

\* the phone strings given to the methods
PhoneArgs == {"1234567890", "0987654321", "12345abcde", "123", "12345678901"}

\* the birthday strings given to the methods
BirthdayArgs == {"08.06.1990", "29.02.2000", "31.02.2000", "1990-06-08"}

\* what a call leaves in ret
Called(op, args, r) ==
    [op |-> op, args |-> args, exc |-> r.exc, msg |-> r.msg, value |-> r.value]

\* no loop of run is going; only book, prev and ret change
Library == /\ state = "Library"
           /\ UNCHANGED <<state, exc, events, disk, lastcmd>>

\* Record(name, phone, birthday)
InitRecord ==
    /\ \E name \in Names, phone \in PhoneArgs, birthday \in {None, ""} \cup BirthdayArgs :
          /\ Record(name, phone, birthday).exc = "none"
          /\ book = <<Record(name, phone, birthday).rec>>
          /\ ret = [op |-> "Record", args |-> <<name, phone, birthday>>,
                    exc |-> "none", msg |-> "", value |-> None]
    /\ prev = book
    /\ state = "Library"
    /\ exc = "none"
    /\ events = <<>>
    /\ disk = NoFile
    /\ lastcmd = NoCmd

Call_add_phone(phone) ==
    /\ Library
    /\ LET r == add_phone(book[1], phone)
       IN /\ book' = <<r.rec>>
          /\ ret' = Called("add_phone", <<phone>>, r)
    /\ prev' = book
    /\ TotalPhones(book') <= MaxPhones

Call_find_phone(phone) ==
    /\ Library
    /\ LET p == find_phone(book[1], phone)
       IN ret' = Called("find_phone", <<phone>>,
                        [exc |-> "none", msg |-> "",
                         value |-> IF p # 0 THEN book[1].phones[p] ELSE None])
    /\ book' = book
    /\ prev' = book

Call_remove_phone(phone) ==
    /\ Library
    /\ LET r == remove_phone(book[1], phone)
       IN /\ book' = <<r.rec>>
          /\ ret' = Called("remove_phone", <<phone>>, r)
    /\ prev' = book

Call_edit_phone(old_phone, new_phone) ==
    /\ Library
    /\ LET r == edit_phone(book[1], old_phone, new_phone)
       IN /\ book' = <<r.rec>>
          /\ ret' = Called("edit_phone", <<old_phone, new_phone>>,
                           [exc |-> r.exc, msg |-> r.msg, value |-> None])
    /\ prev' = book

Call_edit_birthday(new_birthday) ==
    /\ Library
    /\ LET r == edit_birthday(book[1], new_birthday)
       IN /\ book' = <<r.rec>>
          /\ ret' = Called("edit_birthday", <<new_birthday>>,
                           [exc |-> r.exc, msg |-> r.msg, value |-> None])
    /\ prev' = book

NextRecord ==
    \/ \E phone \in PhoneArgs : Call_add_phone(phone)
    \/ \E phone \in PhoneArgs : Call_find_phone(phone)
    \/ \E phone \in PhoneArgs : Call_remove_phone(phone)
    \/ \E old_phone, new_phone \in PhoneArgs : Call_edit_phone(old_phone, new_phone)
    \/ \E new_birthday \in BirthdayArgs : Call_edit_birthday(new_birthday)

SpecRecord == InitRecord /\ [][NextRecord]_vars

--------------------------------------------------------------------------
(* The methods of AddressBook, called directly                            *)

\* the birthday strings of the records added to the book
BookBirthdays ==
    {None, "08.06.1990", "01.06.1985", "29.02.2000", "07.06.1991", "06.06.1980",
     "31.02.2000"}

\* the days given to get_upcoming_birthdays
DaysArgs == {0, 3, DefaultDays}

\* the dates datetime.now().date() gives
BookTodays == { Date(2024, 6, 3), Date(2024, 6, 6), Date(2023, 6, 5), Date(2024, 2, 26) }

\* the dates given to adjust_for_weekend: a week, a month's end, a year's end
AdjustArgs ==
    { Date(2024, 6, d) : d \in 3..9 }
    \cup { Date(2024, 5, 31), Date(2024, 11, 30), Date(2023, 12, 30), Date(2023, 12, 31) }

InitBook ==
    /\ book = <<>>
    /\ prev = book
    /\ state = "Library"
    /\ exc = "none"
    /\ events = <<>>
    /\ disk = NoFile
    /\ lastcmd = NoCmd
    /\ ret = [op |-> "AddressBook"]

\* book.add_record(Record(name, phone, birthday))
Call_add_record(name, phone, birthday) ==
    /\ Library
    /\ LET r == Record(name, phone, birthday)
       IN /\ book' = IF r.exc = "none" THEN add_record(book, r.rec) ELSE book
          /\ ret' = Called("add_record", <<name, phone, birthday>>,
                           [exc |-> r.exc, msg |-> r.msg, value |-> None])
    /\ prev' = book

Call_find(name) ==
    /\ Library
    /\ ret' = Called("find", <<name>>,
                     [exc |-> "none", msg |-> "",
                      value |-> IF find(book, name) # 0
                                THEN book[find(book, name)].name ELSE None])
    /\ book' = book
    /\ prev' = book

Call_delete(name) ==
    /\ Library
    /\ book' = delete(book, name)
    /\ ret' = Called("delete", <<name>>, [exc |-> "none", msg |-> "", value |-> None])
    /\ prev' = book

Call_get_upcoming_birthdays(days, today) ==
    /\ Library
    /\ LET r == get_upcoming_birthdays(book, days, today)
       IN ret' = [op |-> "get_upcoming_birthdays", days |-> days, today |-> today,
                  exc |-> r.exc, value |-> r.value]
    /\ book' = book
    /\ prev' = book

Call_adjust_for_weekend(birthday) ==
    /\ Library
    /\ ret' = [op |-> "adjust_for_weekend", birthday |-> birthday,
               exc |-> "none", value |-> adjust_for_weekend(birthday)]
    /\ book' = book
    /\ prev' = book

NextBook ==
    \/ \E name \in Names, phone \in {"1234567890", "123"}, birthday \in BookBirthdays :
          Call_add_record(name, phone, birthday)
    \/ \E name \in Names : Call_find(name)
    \/ \E name \in Names : Call_delete(name)
    \/ \E days \in DaysArgs, today \in BookTodays : Call_get_upcoming_birthdays(days, today)
    \/ \E birthday \in AdjustArgs : Call_adjust_for_weekend(birthday)

SpecBook == InitBook /\ [][NextBook]_vars

--------------------------------------------------------------------------
(* Properties *)

\* a string of exactly 10 decimal digits
IsTenDigits(w) == Len(Chars(w)) = 10 /\ AllDigits(Chars(w))

\* the last command showed exactly this message
Showed(text) == events = <<show_message(text)>>

\* the keyword of a line: its first field, trimmed and lower-cased
Keyword(line) == Str(lower(strip(Chars(line[1]))))

\* the phones of the record under name n in data
PhonesOf(data, n) == data[CHOOSE i \in 1..Len(data) : data[i].name = n].phones

(* C1: every command, whatever its arguments, ends with a message shown to
   the user and the session still Running; the session is Terminated only by
   exit or close; no exception leaves the command loop. *)
C1_NoFailureEscapes ==
    /\ exc = "none"
    /\ state \in {"Running", "Terminated"}
    /\ (state = "Terminated") => (lastcmd.command \in {"exit", "close"})
    /\ (lastcmd # NoCmd) =>
          \E i \in 1..Len(events) : events[i].kind \in {"show_message", "show_contacts"}

(* C2: 'add n p' with a 10-digit p, when the book has no record under n,
   shows "Contact added." and appends to the book a record of n whose phones
   are exactly <<p>>; when n is present it shows "Phone added." and p is
   appended at the end of n's phones, duplicates kept; no other record
   changes. *)
C2_AddContact ==
    (lastcmd.command = "add" /\ Len(lastcmd.args) = 2 /\ IsTenDigits(lastcmd.args[2])) =>
        LET n == lastcmd.args[1]
            p == lastcmd.args[2]
        IN /\ state = "Running"
           /\ IF \A i \in 1..Len(prev) : prev[i].name # n
              THEN /\ Showed(<<"Contact added.">>)
                   /\ book = prev \o <<[name |-> n, phones |-> <<p>>, birthday |-> None]>>
              ELSE /\ Showed(<<"Phone added.">>)
                   /\ Len(book) = Len(prev)
                   /\ \A i \in 1..Len(prev) :
                         IF prev[i].name = n
                         THEN /\ book[i].phones = prev[i].phones \o <<p>>
                              /\ book[i].name = n
                              /\ book[i].birthday = prev[i].birthday
                         ELSE book[i] = prev[i]

\* 'add Ann 1234567890' a second time: "Phone added.", and the phone is there twice
C2_Witness ==
    /\ lastcmd.command = "add"
    /\ lastcmd.args = <<"Ann", "1234567890">>
    /\ Showed(<<"Phone added.">>)
    /\ Len(book) = 2
    /\ PhonesOf(book, "Ann") = <<"1234567890", "1234567890">>

(* C3: 'change n p' with a 10-character p, when n has a record, replaces the
   value of the record's first phone with p, leaves the rest alone and shows
   'Contact updated.'; when n has no record the book is unchanged and
   'Contact not found.' is shown. *)
C3_ChangeContact ==
    (lastcmd.command = "change" /\ Len(lastcmd.args) = 2) =>
        LET n == lastcmd.args[1]
            p == lastcmd.args[2]
        IN IF \A i \in 1..Len(prev) : prev[i].name # n
           THEN book = prev /\ Showed(<<"Contact not found.">>)
           ELSE (Len(Chars(p)) = 10) =>
                   /\ state = "Running"
                   /\ Showed(<<"Contact updated.">>)
                   /\ Len(book) = Len(prev)
                   /\ \A i \in 1..Len(prev) :
                         IF prev[i].name = n
                         THEN book[i] = [prev[i] EXCEPT !.phones[1] = p]
                         ELSE book[i] = prev[i]

(* C4, as claimed: a Record has at least one phone in every reachable state,
   after any sequence of add_phone, find_phone, remove_phone, edit_phone and
   edit_birthday calls. *)
C4_AlwaysHasPhone == \A i \in 1..Len(book) : Len(book[i].phones) >= 1

(* C4, amended: a Record has at least one phone after construction and after
   every add_phone, find_phone, edit_phone and edit_birthday call, failed or
   not, on a record that had one; remove_phone of a phone the record holds
   takes exactly one entry out, and of any other phone none. *)
C4_HasPhoneUnlessRemoved ==
    /\ (ret.op = "Record") => Len(book[1].phones) = 1
    /\ (ret.op \in {"add_phone", "find_phone", "edit_phone", "edit_birthday"}
          /\ Len(prev[1].phones) >= 1) => Len(book[1].phones) >= 1
    /\ (ret.op = "remove_phone") =>
          Len(book[1].phones) =
             Len(prev[1].phones)
               - (IF \E j \in 1..Len(prev[1].phones) : prev[1].phones[j] = ret.args[1]
                  THEN 1 ELSE 0)

\* edit_phone raised on a record of one phone, which it still has
C4_Witness ==
    /\ ret.op = "edit_phone"
    /\ ret.exc = "TypeError"
    /\ Len(prev[1].phones) = 1
    /\ book[1].phones = prev[1].phones

(* C5: every phone stored in a Record of the book is a string of exactly 10
   decimal digits, whatever 'add' and 'change' commands were given, 10
   characters that are not digits included. *)
C5_PhonesAreTenDigits ==
    \A i \in 1..Len(book) : \A j \in 1..Len(book[i].phones) :
        IsTenDigits(book[i].phones[j])

\* 'change' with 10 characters that are not digits, on a contact of the book
C5_Witness ==
    /\ lastcmd.command = "change"
    /\ Len(lastcmd.args) = 2
    /\ lastcmd.args[2] = "12345abcde"
    /\ \E i \in 1..Len(book) : book[i].name = lastcmd.args[1]

(* C6: edit_phone(old, new) fails with the validation error whenever new is
   not 10 characters long, whether or not old is among the phones; with a new
   of 10 characters and old not among the phones it fails with 'Phone number
   not found'; either way the record is as it was. *)
C6_EditPhoneFailures ==
    (ret.op = "edit_phone") =>
        LET old == ret.args[1]
            new == ret.args[2]
            absent == \A j \in 1..Len(prev[1].phones) : prev[1].phones[j] # old
        IN /\ (Len(Chars(new)) # 10) =>
                 /\ ret.exc = "ValueError"
                 /\ ret.msg = "Invalid phone number: must be 10 digits."
                 /\ book = prev
           /\ (Len(Chars(new)) = 10 /\ absent) =>
                 /\ ret.exc = "ValueError"
                 /\ ret.msg = "Phone number not found"
                 /\ book = prev

\* a new phone of 3 digits and an old one the record does not hold: the
\* length error
C6_Witness ==
    /\ ret.op = "edit_phone"
    /\ ret.args[2] = "123"
    /\ \A j \in 1..Len(prev[1].phones) : prev[1].phones[j] # ret.args[1]
    /\ ret.msg = "Invalid phone number: must be 10 digits."

\* the ordinal of day d of month m of year y, also for a day past the month's end
Ordinal(y, m, d) == DaysBeforeYear(y) + DaysBeforeMonth(y, m) + d

\* the candidate of C7: the stored day and month in today's year, or in the
\* next year when that is before today
CandidateOrdinal(birthday, today) ==
    LET born == strptime(birthday).date
        this == Ordinal(today.year, born.month, born.day)
    IN IF this < toordinal(today)
       THEN Ordinal(today.year + 1, born.month, born.day)
       ELSE this

\* its weekend adjustment: from Friday, Saturday and Sunday to the next Monday
AdjustedOrdinal(birthday, today) ==
    LET c == CandidateOrdinal(birthday, today)
        wd == (c + 6) % 7
    IN IF wd >= 4 THEN c + (7 - wd) ELSE c

InWindow(rec, days, today) ==
    /\ rec.birthday # None
    /\ AdjustedOrdinal(rec.birthday, today) - toordinal(today) \in 0..days

\* the records of C7, in the book's order, each with its adjusted date
RECURSIVE UpcomingOf(_, _, _)
UpcomingOf(data, days, today) ==
    IF data = <<>> THEN <<>>
    ELSE (IF InWindow(Head(data), days, today)
          THEN <<[name |-> Head(data).name,
                  birthday |-> PlusDays(today,
                      AdjustedOrdinal(Head(data).birthday, today) - toordinal(today))]>>
          ELSE <<>>)
         \o UpcomingOf(Tail(data), days, today)

(* C7: get_upcoming_birthdays(days) returns exactly the records with a
   birthday whose adjusted candidate is 0 to days days after today, both ends
   included, in the book's order; with today 2024-06-03 and days 7, a birthday
   08.06 is reported for 2024-06-10 and a birthday 01.06 is not reported. *)
C7_UpcomingBirthdays ==
    (ret.op = "get_upcoming_birthdays") =>
        /\ ret.exc = "none"
        /\ ret.value = UpcomingOf(book, ret.days, ret.today)
        /\ (ret.today = Date(2024, 6, 3) /\ ret.days = 7) =>
              \A i \in 1..Len(book) :
                 /\ (book[i].birthday = "08.06.1990") =>
                       \E k \in 1..Len(ret.value) :
                          ret.value[k] = [name |-> book[i].name,
                                          birthday |-> Date(2024, 6, 10)]
                 /\ (book[i].birthday = "01.06.1985") =>
                       \A k \in 1..Len(ret.value) : ret.value[k].name # book[i].name

\* what C7 says holds of every call of get_upcoming_birthdays that returns
UpcomingWhenItReturns ==
    (ret.op = "get_upcoming_birthdays" /\ ret.exc = "none") =>
        ret.value = UpcomingOf(book, ret.days, ret.today)

(* C8: a line whose keyword, trimmed and lower-cased, is none of the ten
   commands shows "Invalid command.", leaves the book as it was, saves
   nothing and leaves the session Running. *)
C8_UnknownCommand ==
    (lastcmd # NoCmd /\ Keyword(lastcmd.line) \notin Commands) =>
        /\ Showed(<<"Invalid command.">>)
        /\ book = prev
        /\ state = "Running"
        /\ exc = "none"
        /\ \A i \in 1..Len(events) : events[i].kind # "save"

\* 'frobnicate Ann 1234567890' on a book that holds a contact
C8_Witness ==
    /\ lastcmd.line = <<"frobnicate", "Ann", "1234567890">>
    /\ book # <<>>
    /\ Showed(<<"Invalid command.">>)

(* C9: the dispatcher is Running or Terminated and nothing else; it is
   Terminated only after exit or close, and every exit or close terminates
   it, saving the book as it is then and showing the farewell after that; no
   other command saves. *)
C9_RunningOrTerminated ==
    /\ state \in {"Running", "Terminated"}
    /\ (state = "Terminated") => (lastcmd.command \in {"exit", "close"})
    /\ (lastcmd.command \in {"exit", "close"}) =>
          /\ state = "Terminated"
          /\ events = <<Saved, show_message(<<"Good bye!">>)>>
          /\ disk = save_data(book)
          /\ book = prev
    /\ (lastcmd.command \notin {"exit", "close"}) =>
          \A i \in 1..Len(events) : events[i].kind # "save"

\* what C9 says of exit and close and of saving, without the count of states
ExitSavesThenTerminates ==
    /\ (state = "Terminated") => (lastcmd.command \in {"exit", "close"})
    /\ (lastcmd.command \in {"exit", "close"}) =>
          /\ state = "Terminated"
          /\ events = <<Saved, show_message(<<"Good bye!">>)>>
          /\ disk = save_data(book)
          /\ book = prev
    /\ (lastcmd.command \notin {"exit", "close"}) =>
          \A i \in 1..Len(events) : events[i].kind # "save"

(* C10: adjust_for_weekend gives, for a candidate on Friday, Saturday or
   Sunday, the first Monday strictly after it, 1 to 3 days later (3 from a
   Friday), and otherwise the candidate itself; so every date that
   get_upcoming_birthdays reports is a Monday to Thursday and not before its
   candidate. *)
C10_WeekendAdjustment ==
    /\ (ret.op = "adjust_for_weekend") =>
          LET c == ret.birthday
              r == ret.value
          IN IF weekday(c) >= 4
             THEN /\ weekday(r) = 0
                  /\ DaysBetween(r, c) \in 1..3
                  /\ (weekday(c) = 4) => (DaysBetween(r, c) = 3)
             ELSE r = c
    /\ (ret.op = "get_upcoming_birthdays" /\ ret.exc = "none") =>
          \A k \in 1..Len(ret.value) :
             /\ weekday(ret.value[k].birthday) \in 0..3
             /\ toordinal(ret.value[k].birthday) >=
                   CandidateOrdinal(book[find(book, ret.value[k].name)].birthday,
                                    ret.today)

\* Friday 2024-06-07 is moved to Monday 2024-06-10
C10_Witness ==
    /\ ret.op = "adjust_for_weekend"
    /\ ret.birthday = Date(2024, 6, 7)
    /\ weekday(ret.birthday) = 4
    /\ ret.value = Date(2024, 6, 10)

==========================================================================
